---------------------------- MODULE Spec2Model ----------------------------
(***************************************************************************)
(* Task and factory layer of nmmo (src/nmmo/task/task_api.py).             *)
(*                                                                         *)
(* Numbers.  Python floats are kept in fixed point: progress and the       *)
(* values an evaluation function returns are counted in units of 1/One,    *)
(* reward multipliers too, so a reward (progress * multiplier) is counted  *)
(* in units of 1/(One*One).  The fixed point is exact on every value used. *)
(*                                                                         *)
(* Assignee.  Python stores tuple(set(assignee)); the order of that tuple  *)
(* is the set's iteration order, which the language leaves open.  The      *)
(* model keeps the set, that is, everything that does not depend on the    *)
(* order.  rewards and infos are dicts keyed by the ids: functions on the  *)
(* set.                                                                    *)
(***************************************************************************)
EXTENDS Integers, Sequences, FiniteSets, TLC

VARIABLES
  objs,       \* the Task objects that exist, by identity (1, 2, ...)
  tasks,      \* the task list the caller holds: the identities, in order
  ret,        \* what the last operation returned: a list of [idx, rewards, infos]
  last,       \* the last operation: [op, idx, gs, arg, pre], pre = objs before it
  err,        \* the exception the last construction ended in, "" when none
  teams,      \* the teams mapping last passed to make_team_tasks
  task_spec,  \* the task_spec list last passed to make_team_tasks
  heap,       \* the kwargs dicts the task_spec entries refer to
  paid,       \* per assignee, the rewards returned since construction or reset
  items,      \* the equipment items that exist: [cls, level, equipped]
  entity      \* the entity the items are used on: its levels and its slots

vars == <<objs, tasks, ret, last, err, teams, task_spec, heap, paid, items, entity>>

---------------------------------------------------------------------------
(* Bounds and the fixed point *)

\* 1.0 in fixed point
One == 10

\* agent ids are 1..MaxAgent
MaxAgent == 3

Agents == 1..MaxAgent

Max(a, b) == IF a >= b THEN a ELSE b

Min(a, b) == IF a <= b THEN a ELSE b

\* a Python float
F(x) == [kind |-> "float", v |-> x]

\* a Python bool
B(b) == [kind |-> "bool", v |-> IF b THEN 1 ELSE 0]

\* the values an evaluation function is made to return: below 0, 0, two
\* values strictly between 0 and 1, 1, above 1, and the two booleans
EvalOut == {F(0 - One \div 2), F(0), F(3), F(7), F(One), F(One + One \div 2),
            B(TRUE), B(FALSE)}

\* game-state snapshots: the alive agents, and val, which stands for the rest
\* of the world: what a user-supplied evaluation function computes from it.
\* The snapshots used: every world value with everybody alive, and every set
\* of alive agents with the world value False
GameStates ==
  {gs \in [alive_agents : SUBSET Agents, val : EvalOut] :
     gs.alive_agents = Agents \/ gs.val = B(FALSE)}

\* the multipliers tasks are built with: 0.5, 1.0, 2.0 and -1.0
Multipliers == {One \div 2, One, 2 * One, 0 - One}

---------------------------------------------------------------------------
(* Predicates and evaluation functions *)

\* an evaluation callable bound to its subject (a tuple of agent ids) and to
\* its target keyword argument (<<>> when it has none): what Task._eval_fn holds
Pred(fn, subject, target) == [fn |-> fn, subject |-> subject, target |-> target]

\* a plain function of gs, without subject
Fn(fn) == Pred(fn, <<>>, <<>>)

Range(s) == {s[i] : i \in 1..Len(s)}

\* lambda gs, subject: True
dummy_eval_fn(gs, subject) == B(TRUE)

\* a stay-alive check that does not look at gs
stay_alive_eval_always(gs, subject) == B(TRUE)

\* all(agent_id in gs.alive_agents for agent_id in subject.agents)
stay_alive_eval(gs, subject) == B(\A agent_id \in Range(subject) : agent_id \in gs.alive_agents)

\* bp.StayAlive: every agent of the subject is alive
bp_StayAlive(gs, subject) == B(\A a \in Range(subject) : a \in gs.alive_agents)

\* bp.AllDead: every agent of the subject is dead
bp_AllDead(gs, subject) == B(\A a \in Range(subject) : a \notin gs.alive_agents)

\* eval_fn(gs); "val" is a user function that reads its result off the world
Call(pred, gs) ==
  CASE pred.fn = "val"             -> gs.val
    [] pred.fn = "dummy_eval_fn"   -> dummy_eval_fn(gs, pred.subject)
    [] pred.fn = "stay_alive_eval" -> stay_alive_eval(gs, pred.subject)
    [] pred.fn = "StayAlive"       -> bp_StayAlive(gs, pred.subject)
    [] pred.fn = "AllDead"         -> bp_AllDead(gs, pred.subject)
    [] OTHER                       -> F(0)

\* x*1.0
ToFloat(x) == IF x.kind = "bool" THEN x.v * One ELSE x.v

\* min(x,1.0): the clamp without its lower end
Clamp_upper_only(x) == Min(x, One)

\* max(min(x,1.0),0.0)
Clamp(x) == Max(Min(x, One), 0)

---------------------------------------------------------------------------
(* Task *)

\* an assignee argument: an int, or a sequence of ints
IntArg(i) == [isint |-> TRUE, ids |-> <<i>>]

SeqArg(s) == [isint |-> FALSE, ids |-> s]

\* Task._make_name: the class name, the eval_fn and the assignee it joins
make_name(class_name, eval_fn, assignee) ==
  <<class_name, eval_fn.fn, eval_fn.subject, eval_fn.target, assignee>>

\* Task.__init__ fails on an empty sequence
InitFails(assignee) == ~assignee.isint /\ Len(assignee.ids) = 0

\* Task.__init__ storing tuple(assignee), duplicates kept
Task_init_keeps_duplicates(cls, eval_fn, assignee, reward_multiplier) ==
  LET a == Range(assignee.ids)
  IN  [cls               |-> cls,
       eval_fn           |-> eval_fn,
       assignee          |-> a,
       assignee_len      |-> Len(assignee.ids),
       progress          |-> 0,
       completed         |-> FALSE,
       reward_multiplier |-> reward_multiplier,
       name              |-> make_name(cls, eval_fn, a)]

\* Task.__init__: the new object (InitFails excluded by the caller); the
\* assignee tuple is kept as the set of its ids and its length, its order
\* being that of tuple(set(...))
Task_init(cls, eval_fn, assignee, reward_multiplier) ==
  LET a == Range(assignee.ids)
  IN  [cls               |-> cls,
       eval_fn           |-> eval_fn,
       assignee          |-> a,
       assignee_len      |-> IF assignee.isint THEN 1 ELSE Cardinality(a),
       progress          |-> 0,
       completed         |-> FALSE,
       reward_multiplier |-> reward_multiplier,
       name              |-> make_name(cls, eval_fn, a)]

\* reset that forgets the completed flag
reset_keeps_completed(t) == [t EXCEPT !.progress = 0]

\* Task.reset
reset(t) == [t EXCEPT !.progress = 0, !.completed = FALSE]

\* _map_progress_to_reward without the early return of a completed task
Task_map_no_early_return(t, gs) ==
  LET new_progress == Clamp(ToFloat(Call(t.eval_fn, gs)))
  IN  [task  |-> [t EXCEPT !.progress  = new_progress,
                           !.completed = (t.completed \/ new_progress >= One)],
       value |-> new_progress - t.progress]

\* _map_progress_to_reward returning the new progress, not the diff
Task_map_returns_level(t, gs) ==
  IF t.completed
  THEN [task |-> t, value |-> 0]
  ELSE LET new_progress == Clamp(ToFloat(Call(t.eval_fn, gs)))
       IN  [task  |-> [t EXCEPT !.progress  = new_progress,
                                !.completed = (new_progress >= One)],
            value |-> new_progress]

\* _map_progress_to_reward completing on progress > 1 instead of >= 1
Task_map_strict_completion(t, gs) ==
  IF t.completed
  THEN [task |-> t, value |-> 0]
  ELSE LET new_progress == Clamp(ToFloat(Call(t.eval_fn, gs)))
       IN  [task  |-> [t EXCEPT !.progress  = new_progress,
                                !.completed = (new_progress > One)],
            value |-> new_progress - t.progress]

\* Task._map_progress_to_reward: the object afterwards and the value returned
Task_map_progress_to_reward(t, gs) ==
  IF t.completed
  THEN [task |-> t, value |-> 0]
  ELSE LET new_progress == Clamp(ToFloat(Call(t.eval_fn, gs)))
           diff         == new_progress - t.progress
       IN  [task  |-> [t EXCEPT !.progress  = new_progress,
                                !.completed = (t.completed \/ new_progress >= One)],
            value |-> diff]

\* OngoingTask._map_progress_to_reward with the early return of Task
Ongoing_map_early_return(t, gs) ==
  IF t.completed
  THEN [task |-> t, value |-> 0]
  ELSE LET progress == Clamp(ToFloat(Call(t.eval_fn, gs)))
       IN  [task  |-> [t EXCEPT !.progress  = progress,
                                !.completed = (progress >= One)],
            value |-> progress]

\* OngoingTask._map_progress_to_reward recomputing completed at every call
Ongoing_map_no_latch(t, gs) ==
  LET progress == Clamp(ToFloat(Call(t.eval_fn, gs)))
  IN  [task  |-> [t EXCEPT !.progress  = progress,
                           !.completed = (progress >= One)],
       value |-> progress]

\* OngoingTask._map_progress_to_reward
OngoingTask_map_progress_to_reward(t, gs) ==
  LET progress == Clamp(ToFloat(Call(t.eval_fn, gs)))
  IN  [task  |-> [t EXCEPT !.progress  = progress,
                           !.completed = (t.completed \/ progress >= One)],
       value |-> progress]

\* self._map_progress_to_reward(gs), dispatched on the object's class
map_progress_to_reward(t, gs) ==
  IF t.cls = "OngoingTask"
  THEN OngoingTask_map_progress_to_reward(t, gs)
  ELSE Task_map_progress_to_reward(t, gs)

\* compute_rewards that forgets the multiplier
compute_rewards_no_multiplier(t, gs) ==
  LET r      == map_progress_to_reward(t, gs)
      reward == r.value * One
  IN  [task    |-> r.task,
       rewards |-> [ent_id \in r.task.assignee |-> reward],
       infos   |-> [ent_id \in r.task.assignee |->
                      [reward |-> reward, progress |-> r.task.progress]]]

\* compute_rewards that fills in the alive assignees only
compute_rewards_alive_only(t, gs) ==
  LET r      == map_progress_to_reward(t, gs)
      reward == r.value * r.task.reward_multiplier
      alive  == r.task.assignee \cap gs.alive_agents
  IN  [task    |-> r.task,
       rewards |-> [ent_id \in alive |-> reward],
       infos   |-> [ent_id \in alive |->
                      [reward |-> reward, progress |-> r.task.progress]]]

\* Task.compute_rewards: the object afterwards, rewards and infos
compute_rewards(t, gs) ==
  LET r      == map_progress_to_reward(t, gs)
      reward == r.value * r.task.reward_multiplier
  IN  [task    |-> r.task,
       rewards |-> [ent_id \in r.task.assignee |-> reward],
       infos   |-> [ent_id \in r.task.assignee |->
                      [reward |-> reward, progress |-> r.task.progress]]]

---------------------------------------------------------------------------
(* Predicates and make_same_task *)

\* s without its repeated elements, first occurrences kept
RECURSIVE Dedup(_)
Dedup(s) ==
  IF Len(s) = 0
  THEN <<>>
  ELSE LET d == Dedup(SubSeq(s, 1, Len(s) - 1))
       IN  IF s[Len(s)] \in Range(d) THEN d ELSE Append(d, s[Len(s)])

\* Group(agents).agents: the tuple of the agent ids, an int taken as one id
Group(agents) == Dedup(agents.ids)

\* a predicate argument: a Predicate class or a plain function, by name
PredClass(name) == [isclass |-> TRUE, fn |-> name]

PredFunction(name) == [isclass |-> FALSE, fn |-> name]

\* define_predicate(fn): the Predicate class that evaluates fn
define_predicate(fn) == PredClass(fn.fn)

\* pred_cls(subject, target=target): a predicate instance
Instantiate(pred_cls, subject, target) == Pred(pred_cls.fn, subject, target)

\* predicate.create_task(task_cls=task_cls): the assignee is the subject
create_task(predicate, task_cls) ==
  Task_init(task_cls, predicate, SeqArg(predicate.subject), One)

\* predicate.create_task(assignee=assignee, task_cls=task_cls)
create_task_for(predicate, assignee, task_cls) ==
  Task_init(task_cls, predicate, assignee, One)

\* a list of task objects: the new objects and the list of references to them
NoTasks == [objs |-> <<>>, refs |-> <<>>]

\* a list of n distinct new objects
Fresh(os) == [objs |-> os, refs |-> [i \in 1..Len(os) |-> i]]

\* tasks += more
Extend(ts, more) ==
  [objs |-> ts.objs \o more.objs,
   refs |-> ts.refs \o [i \in 1..Len(more.refs) |-> more.refs[i] + Len(ts.objs)]]

\* make_same_task building one task and returning it once per agent
make_same_task_shared(predicate, agent_list, task_cls, target) ==
  LET pred_cls == IF predicate.isclass THEN predicate ELSE define_predicate(predicate)
  IN  IF Len(agent_list) = 0
      THEN NoTasks
      ELSE [objs |-> <<create_task(Instantiate(pred_cls, Group(IntArg(agent_list[1])),
                                               target), task_cls)>>,
            refs |-> [i \in 1..Len(agent_list) |-> 1]]

\* make_same_task(predicate, agent_list, task_cls=task_cls, target=target)
make_same_task(predicate, agent_list, task_cls, target) ==
  LET pred_cls == IF predicate.isclass THEN predicate ELSE define_predicate(predicate)
  IN  Fresh([i \in 1..Len(agent_list) |->
               create_task(Instantiate(pred_cls, Group(IntArg(agent_list[i])), target),
                           task_cls)])

\* the test_mode argument: None, or a string
NoneMode == [isnone |-> TRUE, str |-> ""]

StrMode(x) == [isnone |-> FALSE, str |-> x]

\* nmmo_default_task building tasks of the default class Task
nmmo_default_task_default_cls(agent_list, test_mode) ==
  IF test_mode.isnone
  THEN make_same_task(PredClass("StayAlive"), agent_list, "Task", <<>>)
  ELSE IF test_mode.str = "no_task"
  THEN NoTasks
  ELSE IF test_mode.str = "dummy_eval_fn"
  THEN make_same_task(PredFunction("dummy_eval_fn"), agent_list, "Task", <<>>)
  ELSE make_same_task(PredFunction("stay_alive_eval"), agent_list, "Task", <<>>)

\* nmmo_default_task(agent_list, test_mode)
nmmo_default_task(agent_list, test_mode) ==
  IF test_mode.isnone
  THEN make_same_task(PredClass("StayAlive"), agent_list, "OngoingTask", <<>>)
  ELSE IF test_mode.str = "no_task"
  THEN NoTasks
  ELSE IF test_mode.str = "dummy_eval_fn"
  THEN make_same_task(PredFunction("dummy_eval_fn"), agent_list, "OngoingTask", <<>>)
  ELSE make_same_task(PredFunction("stay_alive_eval"), agent_list, "OngoingTask", <<>>)

---------------------------------------------------------------------------
(* make_team_tasks *)

\* a REWARD_TO that also lists 'all'
REWARD_TO_any == {"agent", "team", "all"}

\* REWARD_TO
REWARD_TO == {"agent", "team"}

\* VALID_TARGET
VALID_TARGET == {"left_team", "right_team", "left_team_leader", "right_team_leader"}

\* a team id: a key of the teams dict, an int or a string
IntId(n) == [type |-> "int", int |-> n, str |-> ""]

StrId(x) == [type |-> "str", int |-> 0, str |-> x]

\* one item of the teams dict, in the dict's order
Team(id, members) == [id |-> id, members |-> members]

\* the value of kwargs['target']: absent, one of the strings, or agent ids
NoTarget == [kind |-> "absent", name |-> "", agents |-> <<>>]

TargetName(name) == [kind |-> "name", name |-> name, agents |-> <<>>]

TargetAgents(agents) == [kind |-> "agents", name |-> "", agents |-> agents]

\* a kwargs dict: task_cls ("" when the key is absent) and target
Kwargs(task_cls, target) == [task_cls |-> task_cls, target |-> target]

\* a task_spec entry (reward_to, pred_cls, kwargs), kwargs a reference to a dict
Entry(reward_to, pred_cls, kwargs) ==
  [reward_to |-> reward_to, pred_cls |-> pred_cls, kwargs |-> kwargs]

\* task_spec[key] on a Python list: an int indexes from 0, a negative one from
\* the end, anything else is a TypeError
list_getitem(list, key) ==
  IF key.type # "int"
  THEN [err |-> "TypeError", pos |-> 0]
  ELSE IF key.int >= 0 /\ key.int < Len(list)
       THEN [err |-> "", pos |-> key.int + 1]
       ELSE IF key.int < 0 /\ 0 - key.int <= Len(list)
            THEN [err |-> "", pos |-> Len(list) + key.int + 1]
            ELSE [err |-> "IndexError", pos |-> 0]

\* the position of team_id in the teams dict
TeamPos(tms, team_id) == CHOOSE p \in 1..Len(tms) : tms[p].id = team_id

\* team_helper.teams[team_id]
team_members(tms, team_id) == tms[TeamPos(tms, team_id)].members

\* team_helper.get_target_agent(team_id, target): the team before (left) or
\* after (right) team_id in the dict's order, cyclically, or its first member
get_target_agent(tms, team_id, target) ==
  LET p     == TeamPos(tms, team_id)
      n     == Len(tms)
      left  == tms[((p - 2 + n) % n) + 1].members
      right == tms[(p % n) + 1].members
  IN  CASE target = "left_team"         -> left
        [] target = "right_team"        -> right
        [] target = "left_team_leader"  -> <<left[1]>>
        [] target = "right_team_leader" -> <<right[1]>>

\* a predicate class that make_team_tasks never instantiates first
special_case_never(pred_cls) == FALSE

\* pred_cls in [bp.AllDead]
special_case(pred_cls) == pred_cls.fn \in {"AllDead"}

\* the body of the loop of make_team_tasks for team_list[idx], idx from 1;
\* st holds the tasks made so far, the kwargs dicts, and the exception raised
team_iteration(tms, spec, idx, st) ==
  LET team_id == tms[idx].id
      got     == list_getitem(spec, team_id)
  IN
  IF got.err # "" THEN [st EXCEPT !.err = got.err] ELSE
  LET entry     == spec[got.pos]
      reward_to == entry.reward_to
      kw        == entry.kwargs
      kwargs0   == st.heap[kw]
  IN
  IF reward_to \notin REWARD_TO THEN [st EXCEPT !.err = "AssertionError"] ELSE
  LET task_cls == IF kwargs0.task_cls # "" THEN kwargs0.task_cls ELSE "Task"
      \* kwargs.pop('task_cls'), kwargs.pop('target')
      kwargs1  == [kwargs0 EXCEPT !.task_cls = ""]
      has_target == kwargs1.target.kind # "absent"
      popped   == [kwargs1 EXCEPT !.target = NoTarget]
      valid    == kwargs1.target.kind = "name" /\ kwargs1.target.name \in VALID_TARGET
  IN
  IF has_target /\ ~valid
  THEN [st EXCEPT !.err = "AssertionError", !.heap[kw] = popped]
  ELSE
  LET target   == IF has_target
                  THEN get_target_agent(tms, team_id, kwargs1.target.name)
                  ELSE <<>>
      kwargs2  == IF has_target
                  THEN [kwargs1 EXCEPT !.target = TargetAgents(target)]
                  ELSE kwargs1
      pred_cls == IF entry.pred_cls.isclass
                  THEN entry.pred_cls
                  ELSE define_predicate(entry.pred_cls)
      special  == special_case(pred_cls)
  IN
  IF special /\ ~has_target
  THEN [st EXCEPT !.err = "KeyError", !.heap[kw] = kwargs2]
  ELSE
  LET kwargs3   == IF special THEN [kwargs2 EXCEPT !.target = NoTarget] ELSE kwargs2
      predicate == Instantiate(pred_cls, Group(SeqArg(target)), <<>>)
      members   == team_members(tms, team_id)
      made ==
        IF reward_to = "team"
        THEN IF ~special
             THEN Fresh(<<create_task(
                            Instantiate(pred_cls, Group(SeqArg(members)),
                                        kwargs3.target.agents),
                            task_cls)>>)
             ELSE Fresh(<<create_task_for(predicate, SeqArg(members), task_cls)>>)
        ELSE IF ~special
             THEN make_same_task(pred_cls, members, task_cls, kwargs3.target.agents)
             ELSE Fresh([i \in 1..Len(members) |->
                           create_task_for(predicate, IntArg(members[i]), task_cls)])
  IN  [st EXCEPT !.tasks = Extend(st.tasks, made), !.heap[kw] = kwargs3]

\* for idx in range(min(len(team_list), len(task_spec))), from idx on
RECURSIVE team_loop(_, _, _, _)
team_loop(tms, spec, idx, st) ==
  IF st.err # "" \/ idx > Min(Len(tms), Len(spec))
  THEN st
  ELSE team_loop(tms, spec, idx + 1, team_iteration(tms, spec, idx, st))

\* make_team_tasks catching the exception and returning the tasks made so far
make_team_tasks_swallows(tms, spec, kwargs_heap) ==
  LET st == team_loop(tms, spec, 1, [tasks |-> NoTasks, heap |-> kwargs_heap, err |-> ""])
  IN  [tasks |-> st.tasks, heap |-> st.heap, err |-> ""]

\* make_team_tasks(teams, task_spec): the tasks returned (none when an
\* exception is raised), the exception, and the kwargs dicts afterwards
make_team_tasks(tms, spec, kwargs_heap) ==
  LET st == team_loop(tms, spec, 1, [tasks |-> NoTasks, heap |-> kwargs_heap, err |-> ""])
  IN  [tasks |-> IF st.err = "" THEN st.tasks ELSE NoTasks,
       heap  |-> st.heap,
       err   |-> st.err]

---------------------------------------------------------------------------
(* State machine: one directly constructed task *)

\* no entity: no levels and no slots
NoEntity == [level |-> 0, skills |-> <<>>, equipment |-> <<>>]

NoGs == [alive_agents |-> {}, val |-> F(0)]

NoCall == [op |-> "none", idx |-> 0, gs |-> NoGs, arg |-> <<>>, pre |-> <<>>]

Init ==
  /\ objs = <<>>
  /\ tasks = <<>>
  /\ ret = <<>>
  /\ last = NoCall
  /\ err = ""
  /\ teams = <<>>
  /\ task_spec = <<>>
  /\ heap = <<>>
  /\ paid = <<>>
  /\ items = <<>>
  /\ entity = NoEntity

TeamVars == <<teams, task_spec, heap>>

\* the variables of the reward account and of the equipment
AuxVars == <<paid, items, entity>>

\* the assignee arguments Task(...) is called with
AssigneeArgs ==
  {IntArg(a) : a \in Agents} \cup
  {SeqArg(s) : s \in {<<>>, <<1, 1, 2>>, <<2, 1>>, <<2>>}}

TaskClasses == {"Task", "OngoingTask"}

\* the i-th task of the task list
Obj(i) == objs[tasks[i]]

\* task_cls(eval_fn, assignee, reward_multiplier), eval_fn a function of gs
NewTask(cls, assignee, m) ==
  /\ tasks = <<>>
  /\ IF InitFails(assignee)
     THEN /\ err' = "AssertionError"
          /\ UNCHANGED <<objs, tasks>>
     ELSE /\ err' = ""
          /\ objs' = <<Task_init(cls, Fn("val"), assignee, m)>>
          /\ tasks' = <<1>>
  /\ ret' = <<>>
  /\ last' = [op |-> "init", idx |-> 0, gs |-> NoGs, arg |-> assignee.ids, pre |-> objs]
  /\ UNCHANGED <<TeamVars, AuxVars>>

\* tasks[i].compute_rewards(gs)
ComputeRewards(i, gs) ==
  /\ i \in 1..Len(tasks)
  /\ LET r == compute_rewards(Obj(i), gs)
     IN  /\ objs' = [objs EXCEPT ![tasks[i]] = r.task]
         /\ ret' = <<[idx |-> i, rewards |-> r.rewards, infos |-> r.infos]>>
  /\ last' = [op |-> "compute_rewards", idx |-> i, gs |-> gs, arg |-> <<>>, pre |-> objs]
  /\ UNCHANGED <<tasks, err, TeamVars, AuxVars>>

\* tasks[i].reset()
Reset(i) ==
  /\ i \in 1..Len(tasks)
  /\ objs' = [objs EXCEPT ![tasks[i]] = reset(Obj(i))]
  /\ ret' = <<>>
  /\ last' = [op |-> "reset", idx |-> i, gs |-> NoGs, arg |-> <<>>, pre |-> objs]
  /\ UNCHANGED <<tasks, err, TeamVars, AuxVars>>

Construct ==
  \E cls \in TaskClasses, a \in AssigneeArgs, m \in Multipliers : NewTask(cls, a, m)

Evaluate ==
  \E i \in 1..Len(tasks), gs \in GameStates : ComputeRewards(i, gs)

Restart ==
  \E i \in 1..Len(tasks) : Reset(i)

Next == Construct \/ Evaluate \/ Restart

Spec == Init /\ [][Next]_vars

---------------------------------------------------------------------------
(* Properties of one task's life: construction, compute_rewards, reset *)

\* the last operation was compute_rewards
Computed == last.op = "compute_rewards"

\* the last operation was a call on existing tasks
Called == last.op \in {"reset", "compute_rewards", "step", "reset_all"}

\* the i-th task of the task list before the last call
PreObj(i) == last.pre[tasks[i]]

\* the object the last operation was called on, before and after the call
PreTask == last.pre[tasks[last.idx]]

CurTask == Obj(last.idx)

\* clamp(eval_fn(gs), 0, 1) for the call just made
Evaluated == Clamp(ToFloat(Call(PreTask.eval_fn, last.gs)))

\* every assignee of the called task got reward r and info {r, p}
Returned(r, p) ==
  /\ Len(ret) = 1
  /\ ret[1].idx = last.idx
  /\ DOMAIN ret[1].rewards = CurTask.assignee
  /\ DOMAIN ret[1].infos = CurTask.assignee
  /\ \A a \in CurTask.assignee :
       /\ ret[1].rewards[a] = r
       /\ ret[1].infos[a] = [reward |-> r, progress |-> p]

\* C1: a default Task whose progress has reached 1 (and that was not reset
\* since) returns reward 0.0 to every assignee at every compute_rewards call,
\* whatever its evaluation function returns for the game state.
C1_IdempotentCompletion ==
  (Computed /\ PreTask.cls = "Task" /\ PreTask.progress >= One)
    => \A a \in DOMAIN ret[1].rewards : ret[1].rewards[a] = 0

\* C1 witness: a completed default Task was evaluated on a game state for
\* which its evaluation function returns 0.3.
C1_Witness ==
  /\ Computed /\ PreTask.cls = "Task" /\ PreTask.progress >= One
  /\ Call(PreTask.eval_fn, last.gs) = F(3)
  /\ PreTask.reward_multiplier = 2 * One
  /\ Returned(0, One)

\* the rewards of a task over a sequence of game states, and the task after it
RECURSIVE Run(_, _)
Run(t, gss) ==
  IF Len(gss) = 0
  THEN [task |-> t, rewards |-> <<>>, completed |-> <<>>]
  ELSE LET r    == compute_rewards(t, Head(gss))
           rest == Run(r.task, Tail(gss))
       IN  [task      |-> rest.task,
            rewards   |-> <<r.rewards>> \o rest.rewards,
            completed |-> <<r.task.completed>> \o rest.completed]

GsVal(v) == [alive_agents |-> {}, val |-> v]

\* the scenario of C2: evaluations 0.3, 0.3, 1.0, multiplier 2.0, assignee 7
C2_Scenario ==
  LET t == Task_init("Task", Fn("val"), IntArg(7), 2 * One)
      r == Run(t, <<GsVal(F(3)), GsVal(F(3)), GsVal(F(One))>>)
  IN  /\ r.rewards = << (7 :> 6 * One), (7 :> 0), (7 :> 14 * One) >>
      /\ r.completed = <<FALSE, FALSE, TRUE>>

\* C2: a default Task that is not completed returns
\* reward_multiplier * (clamp(eval_fn(gs),0,1) - progress before the call) and
\* stores the clamped value as its progress; evaluations 0.3, 0.3, 1.0 with
\* multiplier 2.0 and assignee 7 give 0.6, 0.0, 1.4, completed after tick 3 only.
C2_DiffReward ==
  /\ (Computed /\ PreTask.cls = "Task" /\ ~PreTask.completed)
       => /\ Returned(PreTask.reward_multiplier * (Evaluated - PreTask.progress),
                      Evaluated)
          /\ CurTask.progress = Evaluated
  /\ C2_Scenario

\* C2 witness: the evaluation decreased from 0.7 to 0.3 and the reward is
\* negative.
C2_Witness ==
  /\ Computed /\ PreTask.cls = "Task" /\ ~PreTask.completed
  /\ PreTask.progress = 7 /\ Evaluated = 3
  /\ PreTask.reward_multiplier = 2 * One
  /\ Returned(0 - 8 * One, 3)

\* C3: every compute_rewards call of an OngoingTask, completed or not, stores
\* progress = clamp(eval_fn(gs),0,1) and returns reward_multiplier * progress
\* to every assignee.
C3_OngoingLevelReward ==
  (Computed /\ PreTask.cls = "OngoingTask")
    => /\ CurTask.progress = Evaluated
       /\ Returned(PreTask.reward_multiplier * Evaluated, Evaluated)

\* C3 witness: an OngoingTask that was already completed is evaluated to 1.0
\* again and pays reward_multiplier * 1.0 again.
C3_Witness ==
  /\ Computed /\ PreTask.cls = "OngoingTask"
  /\ PreTask.completed /\ PreTask.progress = One
  /\ Call(PreTask.eval_fn, last.gs) = F(One)
  /\ PreTask.reward_multiplier = 2 * One
  /\ Returned(2 * One * One, One)

\* C4 as stated: completed iff progress >= 1, for Task and OngoingTask.
C4_CompletedIffProgress ==
  \A i \in 1..Len(tasks) : Obj(i).completed <=> Obj(i).progress >= One

\* C4 amended: progress >= 1 implies completed for every task; completed
\* implies progress >= 1 for a default Task (an OngoingTask stays completed
\* when its progress falls below 1 again).
C4_Amended ==
  \A i \in 1..Len(tasks) :
    /\ Obj(i).progress >= One => Obj(i).completed
    /\ (Obj(i).cls = "Task" /\ Obj(i).completed) => Obj(i).progress >= One

\* C4 witness: a default Task that has just been completed by an evaluation
\* above 1.
C4_Witness ==
  /\ Computed /\ PreTask.cls = "Task" /\ ~PreTask.completed
  /\ ToFloat(Call(PreTask.eval_fn, last.gs)) > One
  /\ CurTask.completed /\ CurTask.progress = One

\* C5: a compute_rewards call never makes completed false again, only reset()
\* does; and a completed OngoingTask still pays reward_multiplier * progress.
C5_CompletionLatches ==
  /\ \A i \in 1..Len(tasks) :
       (Called /\ PreObj(i).completed /\ ~Obj(i).completed)
         => (last.op = "reset" /\ last.idx = i)
  /\ (Computed /\ PreTask.cls = "OngoingTask" /\ PreTask.completed)
       => \A a \in CurTask.assignee :
            ret[1].rewards[a] = CurTask.reward_multiplier * CurTask.progress

\* C5 witness: a completed OngoingTask is evaluated to 0.3: it stays completed
\* and pays for the 0.3.
C5_Witness ==
  /\ Computed /\ PreTask.cls = "OngoingTask" /\ PreTask.completed
  /\ CurTask.completed /\ CurTask.progress = 3
  /\ \A a \in CurTask.assignee : ret[1].rewards[a] = 3 * CurTask.reward_multiplier
  /\ CurTask.reward_multiplier # 0

Frame(t) == <<t.name, t.assignee, t.eval_fn, t.reward_multiplier>>

\* C6: reset() sets progress to 0 and completed to false; reset() and
\* compute_rewards leave name, assignee, eval_fn and reward_multiplier as
\* they are.
C6_ResetAndFrame ==
  /\ last.op = "reset" => (CurTask.progress = 0 /\ ~CurTask.completed)
  /\ last.op \in {"reset", "compute_rewards"}
       => /\ Len(objs) = Len(last.pre)
          /\ \A i \in 1..Len(tasks) : Frame(Obj(i)) = Frame(PreObj(i))

\* C6 witness: reset() of a completed task.
C6_Witness ==
  /\ last.op = "reset"
  /\ PreTask.completed /\ PreTask.progress = One
  /\ CurTask.progress = 0 /\ ~CurTask.completed
  /\ Frame(CurTask) = Frame(PreTask)

\* C8: rewards and infos are keyed by exactly the deduplicated assignees,
\* dead or alive; all carry the same reward, every info that reward and the
\* task's progress; assignee (1, 1, 2) is stored as two ids.
C8_KeysAreAssignees ==
  /\ Computed
       => /\ Len(ret) = 1
          /\ DOMAIN ret[1].rewards = CurTask.assignee
          /\ DOMAIN ret[1].infos = CurTask.assignee
          /\ \A a, b \in CurTask.assignee : ret[1].rewards[a] = ret[1].rewards[b]
          /\ \A a \in CurTask.assignee :
               ret[1].infos[a] = [reward   |-> ret[1].rewards[a],
                                  progress |-> CurTask.progress]
          /\ CurTask.assignee = PreTask.assignee
  /\ (last.op = "init" /\ err = "")
       => /\ Obj(1).assignee = Range(last.arg)
          /\ Cardinality(Obj(1).assignee) <= Len(last.arg)
  /\ Cardinality(Task_init("Task", Fn("val"), SeqArg(<<1, 1, 2>>), One).assignee) = 2

\* C8 witness: a task with assignees 1 and 2 is evaluated while 2 is dead,
\* and both get the same non-zero entry.
C8_Witness ==
  /\ Computed
  /\ CurTask.assignee = {1, 2}
  /\ last.gs.alive_agents = {1}
  /\ PreTask.progress = 7 /\ CurTask.progress = 0
  /\ DOMAIN ret[1].rewards = {1, 2}
  /\ ret[1].rewards[1] = ret[1].rewards[2]
  /\ ret[1].rewards[2] # 0
  /\ ret[1].infos[1] = ret[1].infos[2]

---------------------------------------------------------------------------
(* Multiplier linearity: one task built twice, with multiplier m and 1.0,  *)
(* driven by the same game states and the same reset calls                 *)

\* the task built with reward_multiplier m and its twin built with 1.0
InitLin ==
  /\ \E cls \in TaskClasses, a \in AssigneeArgs, m \in Multipliers :
       /\ ~InitFails(a)
       /\ objs = <<Task_init(cls, Fn("val"), a, m),
                   Task_init(cls, Fn("val"), a, One)>>
  /\ tasks = <<1, 2>>
  /\ ret = <<>>
  /\ last = NoCall
  /\ err = ""
  /\ teams = <<>>
  /\ task_spec = <<>>
  /\ heap = <<>>
  /\ paid = <<>>
  /\ items = <<>>
  /\ entity = NoEntity

\* for task in tasks[k..]: task.compute_rewards(gs), in list order
RECURSIVE step_all(_, _, _, _)
step_all(k, os, rs, gs) ==
  IF k > Len(tasks)
  THEN [objs |-> os, ret |-> rs]
  ELSE LET r == compute_rewards(os[tasks[k]], gs)
       IN  step_all(k + 1, [os EXCEPT ![tasks[k]] = r.task],
                    Append(rs, [idx |-> k, rewards |-> r.rewards, infos |-> r.infos]),
                    gs)

\* one tick: task.compute_rewards(gs) for every task, on the same snapshot
StepAll(gs) ==
  /\ objs' = step_all(1, objs, <<>>, gs).objs
  /\ ret' = step_all(1, objs, <<>>, gs).ret
  /\ last' = [op |-> "step", idx |-> 0, gs |-> gs, arg |-> <<>>, pre |-> objs]
  /\ UNCHANGED <<tasks, err, TeamVars, AuxVars>>

\* task.reset() for every task
ResetAll ==
  /\ objs' = [o \in 1..Len(objs) |->
                IF \E k \in 1..Len(tasks) : tasks[k] = o THEN reset(objs[o]) ELSE objs[o]]
  /\ ret' = <<>>
  /\ last' = [op |-> "reset_all", idx |-> 0, gs |-> NoGs, arg |-> <<>>, pre |-> objs]
  /\ UNCHANGED <<tasks, err, TeamVars, AuxVars>>

Tick == \E gs \in GameStates : StepAll(gs)

NextLin == Tick \/ ResetAll

SpecLin == InitLin /\ [][NextLin]_vars

\* C7: at every tick the task built with reward_multiplier m returns m times
\* the reward of the same task built with multiplier 1.0, and the two have
\* the same progress and completed.  (Rewards are in units of 1/(One*One),
\* m in units of 1/One.)
C7_MultiplierLinearity ==
  /\ Obj(1).progress = Obj(2).progress
  /\ Obj(1).completed = Obj(2).completed
  /\ last.op = "step"
       => /\ DOMAIN ret[1].rewards = DOMAIN ret[2].rewards
          /\ \A a \in DOMAIN ret[1].rewards :
               ret[1].rewards[a] * One = Obj(1).reward_multiplier * ret[2].rewards[a]

\* C7 witness: after a reset, the 2.0 task pays 1.4 where its twin pays 0.7.
C7_Witness ==
  /\ last.op = "step"
  /\ Obj(1).reward_multiplier = 2 * One
  /\ \A i \in 1..2 : PreObj(i).progress = 0 /\ PreObj(i).name[1] = "Task"
  /\ \A a \in DOMAIN ret[1].rewards :
       ret[1].rewards[a] = 14 * One /\ ret[2].rewards[a] = 7 * One

---------------------------------------------------------------------------
(* make_same_task and the tasks it returns *)

\* the predicate arguments of make_same_task
SamePreds ==
  {PredClass("StayAlive"), PredFunction("stay_alive_eval"),
   PredFunction("dummy_eval_fn"), PredFunction("val")}

\* the agent lists of make_same_task
AgentLists == {<<>>, <<2>>, <<3, 1>>, <<2, 2>>, <<1, 2, 3>>}

\* tasks = make_same_task(predicate, agent_list, task_cls=task_cls)
MakeSameTask(predicate, agent_list, task_cls) ==
  /\ tasks = <<>> /\ last.op = "none"
  /\ LET made == make_same_task(predicate, agent_list, task_cls, <<>>)
     IN  /\ objs' = made.objs
         /\ tasks' = made.refs
  /\ err' = ""
  /\ ret' = <<>>
  /\ last' = [op |-> "make_same_task", idx |-> 0, gs |-> NoGs, arg |-> agent_list,
              pre |-> objs]
  /\ UNCHANGED <<TeamVars, AuxVars>>

BuildSame ==
  \E predicate \in SamePreds, agent_list \in AgentLists, task_cls \in TaskClasses :
    MakeSameTask(predicate, agent_list, task_cls)

NextSame == BuildSame \/ Evaluate \/ Restart

SpecSame == Init /\ [][NextSame]_vars

\* C9: make_same_task returns one Task per id of agent_list, in input order,
\* the i-th with the i-th id as its only assignee; a compute_rewards or
\* reset call on one returned task leaves progress and completed of every
\* other returned task as they were.
C9_SameTaskIndependent ==
  /\ last.op = "make_same_task"
       => /\ Len(tasks) = Len(last.arg)
          /\ \A i \in 1..Len(tasks) :
               /\ Obj(i).assignee = {last.arg[i]}
               /\ Obj(i).progress = 0 /\ ~Obj(i).completed
  /\ last.op \in {"compute_rewards", "reset"}
       => \A j \in 1..Len(tasks) :
            j # last.idx => /\ Obj(j).progress = PreObj(j).progress
                            /\ Obj(j).completed = PreObj(j).completed

\* C9 witness: of three tasks made for one shared function, the first was
\* completed by a game state that would complete the others too, and the
\* others are still at progress 0.
C9_Witness ==
  /\ Len(tasks) = 3
  /\ Computed /\ last.idx = 1
  /\ Obj(1).completed /\ ~PreObj(1).completed
  /\ \A j \in 2..3 :
       /\ Obj(j).eval_fn.fn = Obj(1).eval_fn.fn
       /\ Call(Obj(j).eval_fn, last.gs) = F(One)
       /\ Obj(j).progress = 0 /\ ~Obj(j).completed

---------------------------------------------------------------------------
(* make_team_tasks and the tasks it returns *)

\* the teams mappings: keys 0,1; keys A,B; keys 1,2; one team
TeamsInputs ==
  {<<Team(IntId(0), <<1, 2>>), Team(IntId(1), <<3>>)>>,
   <<Team(StrId("A"), <<1, 2>>), Team(StrId("B"), <<3, 4>>)>>,
   <<Team(IntId(1), <<1, 2>>), Team(IntId(2), <<3>>)>>,
   <<Team(IntId(0), <<1, 2>>)>>}

\* the task_spec entries, each with its own kwargs dict: four well-formed
\* ones, one with a reward_to and one with a target that are not allowed
Entries ==
  {[reward_to |-> "team", pred_cls |-> PredClass("StayAlive"),
    kwargs |-> Kwargs("", NoTarget)],
   [reward_to |-> "agent", pred_cls |-> PredFunction("stay_alive_eval"),
    kwargs |-> Kwargs("OngoingTask", NoTarget)],
   [reward_to |-> "team", pred_cls |-> PredClass("AllDead"),
    kwargs |-> Kwargs("", TargetName("left_team"))],
   [reward_to |-> "agent", pred_cls |-> PredClass("AllDead"),
    kwargs |-> Kwargs("OngoingTask", TargetName("right_team_leader"))],
   [reward_to |-> "all", pred_cls |-> PredClass("StayAlive"),
    kwargs |-> Kwargs("", NoTarget)],
   [reward_to |-> "team", pred_cls |-> PredClass("AllDead"),
    kwargs |-> Kwargs("", TargetName("my_team"))]}

\* the task_spec lists: every list of at most two entries, and lists of three
EntryLists ==
  {<<>>} \cup {<<e>> : e \in Entries} \cup {<<e, f>> : e, f \in Entries}
  \cup {<<e, f, f>> : e, f \in {x \in Entries : x.reward_to = "team"}}

\* the list with one kwargs dict per entry, and these dicts
SpecOf(es) == [i \in 1..Len(es) |-> Entry(es[i].reward_to, es[i].pred_cls, i)]

HeapOf(es) == [i \in 1..Len(es) |-> es[i].kwargs]

\* tasks = make_team_tasks(teams, task_spec)
MakeTeamTasks(tms, es) ==
  /\ tasks = <<>> /\ last.op = "none"
  /\ LET r == make_team_tasks(tms, SpecOf(es), HeapOf(es))
     IN  /\ objs' = r.tasks.objs
         /\ tasks' = r.tasks.refs
         /\ heap' = r.heap
         /\ err' = r.err
  /\ teams' = tms
  /\ task_spec' = SpecOf(es)
  /\ ret' = <<>>
  /\ last' = [op |-> "make_team_tasks", idx |-> 0, gs |-> NoGs, arg |-> es, pre |-> objs]
  /\ UNCHANGED AuxVars

BuildTeam == \E tms \in TeamsInputs, es \in EntryLists : MakeTeamTasks(tms, es)

NextTeam == BuildTeam \/ Evaluate \/ Restart

SpecTeam == Init /\ [][NextTeam]_vars

\* the teams at positions 1..n of the mapping that got at least one task
TeamsWithTasks ==
  {p \in 1..Len(teams) :
     \E i \in 1..Len(tasks) : Obj(i).assignee \subseteq Range(teams[p].members)}

\* the tasks (positions of the task list) made for the team at position p
TasksOf(p) ==
  {i \in 1..Len(tasks) : Obj(i).assignee \subseteq Range(teams[p].members)}

\* an entry that passes the validation the spec describes
WellFormed(e) ==
  /\ e.reward_to \in {"agent", "team"}
  /\ \/ e.kwargs.target.kind = "absent"
     \/ /\ e.kwargs.target.kind = "name"
        /\ e.kwargs.target.name \in
             {"left_team", "right_team", "left_team_leader", "right_team_leader"}

\* make_team_tasks was the last call
TeamCall == last.op = "make_team_tasks"

\* make_team_tasks was the last call and it returned a task list
TeamReturned == TeamCall /\ err = ""

\* C10: for any teams mapping and any task_spec list (of well-formed
\* entries), make_team_tasks completes without error and makes tasks for
\* exactly the first min(len(teams), len(task_spec)) teams.
C10_Truncation ==
  (TeamCall /\ \A k \in 1..Len(last.arg) : WellFormed(last.arg[k]))
    => /\ err = ""
       /\ TeamsWithTasks = 1..Min(Len(teams), Len(task_spec))

\* the class of the tasks an entry asks for
ClassOf(e) == IF e.kwargs.task_cls # "" THEN e.kwargs.task_cls ELSE "Task"

\* C11: in the list make_team_tasks returns, the team at position p of the
\* teams mapping, for every p up to min(len(teams), len(task_spec)), has the
\* tasks of the task_spec entry at position p, whatever the team ids are; the
\* tasks appear in team order and, within a team, in member order.
C11_PositionalBinding ==
  TeamReturned
    => /\ \A p \in 1..Min(Len(teams), Len(last.arg)) :
            /\ TasksOf(p) # {}
            /\ \A i \in TasksOf(p) :
                 /\ Obj(i).eval_fn.fn = last.arg[p].pred_cls.fn
                 /\ Obj(i).cls = ClassOf(last.arg[p])
       /\ \A p, q \in 1..Len(teams) :
            \A i \in TasksOf(p), j \in TasksOf(q) : p < q => i < j

\* the positions of the teams that the loop of make_team_tasks visits
Visited == 1..Min(Len(teams), Len(last.arg))

\* the loop could read an entry of the list for the team at position p
Reads(p) == list_getitem(last.arg, teams[p].id).err = ""

\* the entry the loop read for the team at position p
BoundEntry(p) == last.arg[list_getitem(last.arg, teams[p].id).pos]

\* C12: for every team and the entry make_team_tasks bound to it: with
\* reward_to 'team' the team has exactly one task, assigned to all its
\* members; with reward_to 'agent' it has exactly one task per member, with
\* that member as only assignee, each a Task object of its own at progress
\* 0 and not completed. Both for AllDead (instantiated first) and the rest.
C12_TasksPerTeam ==
  TeamReturned
    => \A p \in Visited :
         LET members == teams[p].members
         IN  /\ BoundEntry(p).reward_to = "team"
                  => /\ Cardinality(TasksOf(p)) = 1
                     /\ \A i \in TasksOf(p) : Obj(i).assignee = Range(members)
             /\ BoundEntry(p).reward_to = "agent"
                  => /\ Cardinality(TasksOf(p)) = Len(members)
                     /\ \A k \in 1..Len(members) :
                          \E i \in TasksOf(p) : Obj(i).assignee = {members[k]}
             /\ \A i, j \in TasksOf(p) : i # j => tasks[i] # tasks[j]
             /\ \A i \in TasksOf(p) : Obj(i).progress = 0 /\ ~Obj(i).completed

\* C12 witness: one call made two tasks for the two members of a team from
\* an AllDead entry with reward_to 'agent', and one task for another team
\* from a StayAlive entry with reward_to 'team'.
C12_Witness ==
  /\ TeamReturned
  /\ \E p, q \in Visited :
       /\ BoundEntry(p).reward_to = "agent"
       /\ BoundEntry(p).pred_cls.fn = "AllDead"
       /\ Cardinality(TasksOf(p)) = 2
       /\ BoundEntry(q).reward_to = "team"
       /\ BoundEntry(q).pred_cls.fn = "StayAlive"
       /\ Cardinality(TasksOf(q)) = 1

\* C13: when an entry that make_team_tasks reads for a team has a reward_to
\* other than 'agent' and 'team', or a target other than the four relative
\* targets, the call ends in an exception and returns no task, the tasks of
\* the teams before it included; the exception is the failed assertion when
\* it is the first team's entry.
C13_ValidationFatal ==
  (TeamCall /\ \E p \in Visited : Reads(p) /\ ~WellFormed(BoundEntry(p)))
    => /\ err # ""
       /\ tasks = <<>> /\ objs = <<>>
       /\ (Reads(1) /\ ~WellFormed(BoundEntry(1))) => err = "AssertionError"

\* C13 witness: the first team's entry was fine and the second team's was
\* not; the call raised the assertion and no task is left.
C13_Witness ==
  /\ TeamCall
  /\ Len(teams) = 2 /\ Visited = {1, 2}
  /\ Reads(1) /\ WellFormed(BoundEntry(1))
  /\ Reads(2) /\ ~WellFormed(BoundEntry(2))
  /\ err = "AssertionError"
  /\ tasks = <<>>

---------------------------------------------------------------------------
(* The assignee of every task *)

\* C15: every Task object has at least one assignee and no id twice in its
\* assignee tuple; Task(...) with an empty sequence raises and creates no
\* object, and with any other argument stores each id of it once.
C15_AssigneeNonEmptyUnique ==
  /\ \A o \in 1..Len(objs) :
       /\ objs[o].assignee # {}
       /\ objs[o].assignee_len = Cardinality(objs[o].assignee)
  /\ last.op = "init"
       => IF last.arg = <<>>
          THEN err = "AssertionError" /\ tasks = <<>> /\ objs = <<>>
          ELSE /\ err = ""
               /\ Len(tasks) = 1
               /\ Obj(1).assignee = Range(last.arg)

\* C15 witness: a task was constructed for [1, 1, 2] and has the two
\* assignees 1 and 2.
C15_Witness ==
  /\ last.op = "init" /\ last.arg = <<1, 1, 2>>
  /\ Len(tasks) = 1
  /\ Obj(1).assignee = {1, 2} /\ Obj(1).assignee_len = 2

---------------------------------------------------------------------------
(* nmmo_default_task and the tasks it returns *)

\* the test_mode arguments: None, the two named modes, and two other strings
TestModes ==
  {NoneMode, StrMode("no_task"), StrMode("dummy_eval_fn"), StrMode("None"),
   StrMode("stay_alive")}

\* the agent lists of nmmo_default_task; agent 5 is in no snapshot
DefaultAgentLists == AgentLists \cup {<<5>>}

\* tasks = nmmo_default_task(agent_list, test_mode)
NmmoDefaultTask(agent_list, test_mode) ==
  /\ tasks = <<>> /\ last.op = "none"
  /\ LET made == nmmo_default_task(agent_list, test_mode)
     IN  /\ objs' = made.objs
         /\ tasks' = made.refs
  /\ err' = ""
  /\ ret' = <<>>
  /\ last' = [op |-> "nmmo_default_task", idx |-> 0, gs |-> NoGs,
              arg |-> [agent_list |-> agent_list, test_mode |-> test_mode],
              pre |-> objs]
  /\ UNCHANGED <<TeamVars, AuxVars>>

BuildDefault ==
  \E agent_list \in DefaultAgentLists, test_mode \in TestModes :
    NmmoDefaultTask(agent_list, test_mode)

NextDefault == BuildDefault \/ Evaluate \/ Restart

SpecDefault == Init /\ [][NextDefault]_vars

\* the evaluation function nmmo_default_task picks for a test_mode
DefaultFn(test_mode) ==
  IF test_mode.isnone THEN "StayAlive"
  ELSE IF test_mode.str = "dummy_eval_fn" THEN "dummy_eval_fn"
  ELSE "stay_alive_eval"

\* C16: nmmo_default_task(agent_list, test_mode) returns the empty list for
\* test_mode 'no_task'; for None, 'dummy_eval_fn' and any other value it
\* returns one OngoingTask per id of agent_list, in input order, the i-th
\* with the i-th id as its only assignee.
C16_DefaultTasks ==
  last.op = "nmmo_default_task"
    => IF last.arg.test_mode = StrMode("no_task")
       THEN tasks = <<>> /\ objs = <<>>
       ELSE /\ Len(tasks) = Len(last.arg.agent_list)
            /\ \A i \in 1..Len(tasks) :
                 /\ Obj(i).cls = "OngoingTask"
                 /\ Obj(i).assignee = {last.arg.agent_list[i]}
                 /\ Obj(i).assignee_len = 1
                 /\ Obj(i).eval_fn.fn = DefaultFn(last.arg.test_mode)
            /\ \A i, j \in 1..Len(tasks) : i # j => tasks[i] # tasks[j]

\* C16 witness: test_mode None gave three OngoingTasks for [1, 2, 3].
C16_Witness ==
  /\ last.op = "nmmo_default_task"
  /\ last.arg.test_mode = NoneMode
  /\ last.arg.agent_list = <<1, 2, 3>>
  /\ Len(tasks) = 3
  /\ \A i \in 1..3 : Obj(i).cls = "OngoingTask" /\ Obj(i).assignee = {i}

\* the called task is one that test_mode 'dummy_eval_fn' made
DummyComputed == Computed /\ PreTask.eval_fn.fn = "dummy_eval_fn"

\* C17: the task of nmmo_default_task([5], 'dummy_eval_fn') is one
\* OngoingTask assigned to 5; every compute_rewards call on a task made with
\* 'dummy_eval_fn', the first and the later ones, for any game state, returns
\* reward 1.0*multiplier and progress 1.0 for its assignee and leaves the
\* task completed.
C17_DummyEvalFn ==
  /\ (last.op = "nmmo_default_task"
        /\ last.arg.test_mode = StrMode("dummy_eval_fn")
        /\ last.arg.agent_list = <<5>>)
       => /\ Len(tasks) = 1
          /\ Obj(1).cls = "OngoingTask"
          /\ Obj(1).assignee = {5}
          /\ Obj(1).reward_multiplier = One
  /\ DummyComputed
       => /\ Returned(One * CurTask.reward_multiplier, One)
          /\ CurTask.progress = One
          /\ CurTask.completed

\* C17 witness: the task of agent 5 was already completed when it was called
\* again, with agent 5 not alive, and returned {5: 1.0}.
C17_Witness ==
  /\ DummyComputed
  /\ Len(tasks) = 1
  /\ CurTask.assignee = {5}
  /\ PreTask.completed
  /\ 5 \notin last.gs.alive_agents
  /\ ret[1].rewards[5] = One * One

---------------------------------------------------------------------------
(* The range of progress *)

\* the value eval_fn returned in the last compute_rewards call, as a float
Output == ToFloat(Call(PreTask.eval_fn, last.gs))

\* the last compute_rewards call evaluated eval_fn (a completed default Task
\* returns before it does)
EvalTookPlace == Computed /\ ~(PreTask.cls = "Task" /\ PreTask.completed)

\* C18: after any compute_rewards and reset calls on a Task or OngoingTask,
\* whatever eval_fn returns (below 0, above 1, a boolean), progress is
\* between 0 and 1; a returned value above 1 is stored as 1 and completes
\* the task, a returned value below 0 is stored as 0.
C18_ProgressInRange ==
  /\ \A o \in 1..Len(objs) : objs[o].progress >= 0 /\ objs[o].progress <= One
  /\ EvalTookPlace
       => /\ Output > One => CurTask.progress = One /\ CurTask.completed
          /\ Output < 0 => CurTask.progress = 0
          /\ (Output >= 0 /\ Output <= One) => CurTask.progress = Output

\* C18 witness: an OngoingTask at progress 1.0 was evaluated to -0.5 and is
\* at progress 0 now.
C18_Witness ==
  /\ EvalTookPlace
  /\ PreTask.cls = "OngoingTask" /\ PreTask.progress = One
  /\ Output = 0 - One \div 2
  /\ CurTask.progress = 0

---------------------------------------------------------------------------
(* The tasks of an AllDead entry *)

\* the kwargs dict of the entry read for the team at position p, as it is
\* after the call
BoundKwargs(p) == heap[task_spec[list_getitem(task_spec, teams[p].id).pos].kwargs]

\* C20: for an AllDead entry, make_team_tasks makes the predicate with the
\* resolved target group as subject and without target among its keyword
\* arguments, and pops target from the entry's kwargs; all tasks of the team
\* hold that one predicate, each being an object of its own. A
\* compute_rewards call on such a task evaluates AllDead over the subject of
\* the predicate, whoever the assignee is, and neither it nor a reset changes
\* progress or completed of another task.
C20_AllDeadPath ==
  /\ TeamReturned
       => \A p \in Visited :
            BoundEntry(p).pred_cls.fn = "AllDead"
              => /\ BoundKwargs(p).target = NoTarget
                 /\ \A i \in TasksOf(p) :
                      /\ Obj(i).eval_fn.subject =
                           Dedup(get_target_agent(teams, teams[p].id,
                                                  BoundEntry(p).kwargs.target.name))
                      /\ Obj(i).eval_fn.target = <<>>
                 /\ \A i, j \in TasksOf(p) :
                      /\ Obj(i).eval_fn = Obj(j).eval_fn
                      /\ i # j => tasks[i] # tasks[j]
  /\ (EvalTookPlace /\ PreTask.eval_fn.fn = "AllDead")
       => CurTask.progress =
            IF Range(PreTask.eval_fn.subject) \cap last.gs.alive_agents = {}
            THEN One ELSE 0
  /\ (last.op \in {"compute_rewards", "reset"}
        /\ \E i \in 1..Len(tasks) : Obj(i).eval_fn.fn = "AllDead")
       => \A j \in 1..Len(tasks) :
            j # last.idx => /\ Obj(j).progress = PreObj(j).progress
                            /\ Obj(j).completed = PreObj(j).completed

\* C20 witness: of two tasks holding one AllDead predicate, made for the two
\* members of a team, the first was completed by a game state in which both
\* members live and the target is dead; the second is still at progress 0.
C20_Witness ==
  /\ Computed /\ last.idx = 1
  /\ PreTask.eval_fn.fn = "AllDead"
  /\ ~PreTask.completed /\ CurTask.completed
  /\ Len(tasks) >= 2
  /\ Obj(2).eval_fn = Obj(1).eval_fn
  /\ Obj(2).assignee # Obj(1).assignee
  /\ (Obj(1).assignee \cup Obj(2).assignee) \subseteq last.gs.alive_agents
  /\ Obj(2).progress = 0 /\ ~Obj(2).completed

---------------------------------------------------------------------------
(* One tick over a task list, the tasks taken in any order *)

\* the orders in which n tasks can be taken: order[k] is the k-th task called
Orders(n) == {o \in [1..n -> 1..n] : \A i, j \in 1..n : i # j => o[i] # o[j]}

\* what a task has returned before it was called in the tick
NotCalled == [idx |-> 0, rewards |-> <<>>, infos |-> <<>>]

\* tasks[order[k]].compute_rewards(gs), then the calls after it; rs[i] is
\* what tasks[i] returned
RECURSIVE step_in_order(_, _, _, _, _)
step_in_order(order, k, os, rs, gs) ==
  IF k > Len(order)
  THEN [objs |-> os, ret |-> rs]
  ELSE LET i == order[k]
           r == compute_rewards(os[tasks[i]], gs)
       IN  step_in_order(order, k + 1, [os EXCEPT ![tasks[i]] = r.task],
                         [rs EXCEPT ![i] = [idx |-> i, rewards |-> r.rewards,
                                            infos |-> r.infos]],
                         gs)

\* one tick: every task's compute_rewards(gs) on the same snapshot, one call
\* after the other, in the given order
StepInOrder(gs, order) ==
  /\ tasks # <<>>
  /\ LET r == step_in_order(order, 1, objs, [i \in 1..Len(tasks) |-> NotCalled], gs)
     IN  /\ objs' = r.objs
         /\ ret' = r.ret
  /\ last' = [op |-> "tick", idx |-> 0, gs |-> gs, arg |-> order, pre |-> objs]
  /\ UNCHANGED <<tasks, err, TeamVars, AuxVars>>

\* the snapshots of a tick: nobody, everybody, one team, the other team or
\* one agent alive, with the world value False; everybody with 0.7 and 1.0
TickStates ==
  {gs \in GameStates :
     /\ gs.val \in {B(FALSE), F(7), F(One)}
     /\ gs.alive_agents \in {Agents, {}, {1, 2}, {3}, {1}}}

TickInOrder ==
  \E gs \in TickStates, order \in Orders(Len(tasks)) : StepInOrder(gs, order)

\* lists of two and of three tasks holding one function or predicate class
BuildSameFew ==
  \E predicate \in SamePreds, task_cls \in TaskClasses :
    \E agent_list \in {<<3, 1>>, <<1, 2, 3>>} :
      MakeSameTask(predicate, agent_list, task_cls)

\* the task lists of two teams: one task per team, or one per member, with
\* predicates of their own or with one AllDead predicate for the team
BuildTwoTeams ==
  \E e, f \in {x \in Entries : WellFormed(x)} :
    MakeTeamTasks(<<Team(IntId(0), <<1, 2>>), Team(IntId(1), <<3>>)>>, <<e, f>>)

NextOrder == BuildSameFew \/ BuildTwoTeams \/ TickInOrder \/ Restart

SpecOrder == Init /\ [][NextOrder]_vars

\* C19: when the distinct tasks of a list (tasks holding one function or one
\* predicate included) are each called once with one game state, in any
\* order, every task returns the rewards and infos, and ends with the
\* progress and completed, that its own compute_rewards gives from its state
\* before the tick; these are the results of calling the tasks in list order.
C19_OrderIndependent ==
  last.op = "tick"
    => /\ \A i \in 1..Len(tasks) :
            LET r == compute_rewards(last.pre[tasks[i]], last.gs)
            IN  /\ Obj(i) = r.task
                /\ ret[i].rewards = r.rewards
                /\ ret[i].infos = r.infos
       /\ objs = step_all(1, last.pre, <<>>, last.gs).objs
       /\ ret = step_all(1, last.pre, <<>>, last.gs).ret

\* C19 witness: two tasks holding one AllDead predicate were called second
\* task first; both went from not completed to completed and both paid 1.0.
C19_Witness ==
  /\ last.op = "tick"
  /\ Len(tasks) >= 2
  /\ last.arg[1] = 2
  /\ Obj(1).eval_fn.fn = "AllDead"
  /\ Obj(1).eval_fn = Obj(2).eval_fn
  /\ \A i \in 1..2 :
       /\ ~PreObj(i).completed /\ Obj(i).completed
       /\ \A a \in Obj(i).assignee : ret[i].rewards[a] = One * One

---------------------------------------------------------------------------
(* The function-based stay-alive tasks of nmmo_default_task *)

\* the called task is one that holds the function stay_alive_eval
StayAliveComputed == Computed /\ PreTask.eval_fn.fn = "stay_alive_eval"

\* C21: a task that nmmo_default_task made with the function stay_alive_eval
\* returns, at every compute_rewards call, reward 1.0 and progress 1.0 for
\* its agent when the agent is in gs.alive_agents and reward 0.0 and progress
\* 0.0 when it is not, whatever its progress and completed were before.
C21_StayAliveEachTick ==
  StayAliveComputed
    => /\ PreTask.cls = "OngoingTask"
       /\ PreTask.reward_multiplier = One
       /\ \A a \in PreTask.assignee :
            IF a \in last.gs.alive_agents
            THEN Returned(One * One, One) /\ CurTask.progress = One
            ELSE Returned(0, 0) /\ CurTask.progress = 0

\* C21 witness: the task of agent 2 was completed at progress 1.0, then agent
\* 2 was not alive and the task returned 0.0.
C21_Witness ==
  /\ StayAliveComputed
  /\ PreTask.assignee = {2}
  /\ PreTask.completed /\ PreTask.progress = One
  /\ 2 \notin last.gs.alive_agents
  /\ Returned(0, 0)

---------------------------------------------------------------------------
(* The rewards a default Task has returned since construction or reset *)

\* the multipliers of the account: those of Multipliers, and 0.0
PayMultipliers == Multipliers \cup {0}

\* task = Task(eval_fn, assignee, reward_multiplier); nothing returned yet
PayNewTask(assignee, m) ==
  /\ tasks = <<>>
  /\ ~InitFails(assignee)
  /\ objs' = <<Task_init("Task", Fn("val"), assignee, m)>>
  /\ tasks' = <<1>>
  /\ paid' = [a \in Range(assignee.ids) |-> 0]
  /\ err' = ""
  /\ ret' = <<>>
  /\ last' = [op |-> "init", idx |-> 0, gs |-> NoGs, arg |-> assignee.ids, pre |-> objs]
  /\ UNCHANGED <<TeamVars, items, entity>>

\* task.compute_rewards(gs), the caller adding up what each assignee gets
PayCompute(gs) ==
  /\ tasks # <<>>
  /\ LET r == compute_rewards(Obj(1), gs)
     IN  /\ objs' = [objs EXCEPT ![tasks[1]] = r.task]
         /\ ret' = <<[idx |-> 1, rewards |-> r.rewards, infos |-> r.infos]>>
         /\ paid' = [a \in DOMAIN paid |->
                       paid[a] + (IF a \in DOMAIN r.rewards THEN r.rewards[a] ELSE 0)]
  /\ last' = [op |-> "compute_rewards", idx |-> 1, gs |-> gs, arg |-> <<>>, pre |-> objs]
  /\ UNCHANGED <<tasks, err, TeamVars, items, entity>>

\* task.reset(), the caller starting a new sum
PayReset ==
  /\ tasks # <<>>
  /\ objs' = [objs EXCEPT ![tasks[1]] = reset(Obj(1))]
  /\ paid' = [a \in DOMAIN paid |-> 0]
  /\ ret' = <<>>
  /\ last' = [op |-> "reset", idx |-> 1, gs |-> NoGs, arg |-> <<>>, pre |-> objs]
  /\ UNCHANGED <<tasks, err, TeamVars, items, entity>>

PayConstruct == \E a \in AssigneeArgs, m \in PayMultipliers : PayNewTask(a, m)

PayEvaluate == \E gs \in GameStates : PayCompute(gs)

NextPay == PayConstruct \/ PayEvaluate \/ PayReset

SpecPay == Init /\ [][NextPay]_vars

\* the sum of the rewards of every assignee is reward_multiplier * progress
Telescoped ==
  /\ DOMAIN paid = Obj(1).assignee
  /\ \A a \in DOMAIN paid : paid[a] = Obj(1).reward_multiplier * Obj(1).progress

\* C22 as stated: the rewards a default Task returned to an assignee since
\* construction or the last reset add up to reward_multiplier * progress; for
\* a reward_multiplier >= 0 the sum is in [0, reward_multiplier], and it is
\* reward_multiplier exactly when the task is completed.
C22_Telescoping ==
  tasks # <<>>
    => /\ Telescoped
       /\ Obj(1).reward_multiplier >= 0
            => \A a \in DOMAIN paid :
                 /\ paid[a] >= 0
                 /\ paid[a] <= Obj(1).reward_multiplier * One
                 /\ paid[a] = Obj(1).reward_multiplier * One <=> Obj(1).completed

\* C22 amended: the sum is reward_multiplier * progress; for a
\* reward_multiplier >= 0 it is in [0, reward_multiplier] and it is
\* reward_multiplier when the task is completed; for a reward_multiplier > 0
\* it is reward_multiplier only when the task is completed (with multiplier
\* 0.0 the sum is 0.0 all along).
C22_Amended ==
  tasks # <<>>
    => /\ Telescoped
       /\ Obj(1).reward_multiplier >= 0
            => \A a \in DOMAIN paid :
                 /\ paid[a] >= 0
                 /\ paid[a] <= Obj(1).reward_multiplier * One
                 /\ Obj(1).completed => paid[a] = Obj(1).reward_multiplier * One
                 /\ (Obj(1).reward_multiplier > 0
                       /\ paid[a] = Obj(1).reward_multiplier * One)
                      => Obj(1).completed

\* C22 witness: a task with multiplier 2.0 went up to 0.7, down to 0.3 and
\* was then completed: its assignee has got 2.0 in all, 1.4 of it in the last
\* call.
C22_Witness ==
  /\ Computed
  /\ CurTask.reward_multiplier = 2 * One
  /\ PreTask.progress = 3 /\ CurTask.completed
  /\ Returned(14 * One, One)
  /\ \A a \in DOMAIN paid : paid[a] = 2 * One * One

---------------------------------------------------------------------------
(* make_team_tasks on a task_spec whose kwargs dicts are used again *)

\* the two teams 0 and 1, for which task_spec[team_id] is the entry at the
\* team's position
TwoTeams == <<Team(IntId(0), <<1, 2>>), Team(IntId(1), <<3>>)>>

\* pairs of well-formed entries that can be written with one kwargs dict:
\* both for AllDead, with a target, or both for another predicate, without
SharingPairs ==
  {p \in {x \in Entries : WellFormed(x)} \X {x \in Entries : WellFormed(x)} :
     (p[1].pred_cls.fn = "AllDead") <=> (p[2].pred_cls.fn = "AllDead")}

\* kwargs = {...}; make_team_tasks(teams, [(.., .., kwargs), (.., .., kwargs)])
MakeTeamTasksShared(tms, e, f) ==
  /\ tasks = <<>> /\ last.op = "none"
  /\ LET spec == <<Entry(e.reward_to, e.pred_cls, 1), Entry(f.reward_to, f.pred_cls, 1)>>
         r    == make_team_tasks(tms, spec, <<e.kwargs>>)
     IN  /\ objs' = r.tasks.objs
         /\ tasks' = r.tasks.refs
         /\ heap' = r.heap
         /\ err' = r.err
         /\ task_spec' = spec
  /\ teams' = tms
  /\ ret' = <<>>
  /\ last' = [op |-> "make_team_tasks", idx |-> 0, gs |-> NoGs,
              arg |-> <<e, [f EXCEPT !.kwargs = e.kwargs]>>, pre |-> objs]
  /\ UNCHANGED AuxVars

\* tasks = make_team_tasks(teams, task_spec) once more, with the task_spec of
\* the call before, which returned a task list
MakeTeamTasksAgain ==
  /\ last.op = "make_team_tasks" /\ err = ""
  /\ LET r == make_team_tasks(teams, task_spec, heap)
     IN  /\ objs' = r.tasks.objs
         /\ tasks' = r.tasks.refs
         /\ heap' = r.heap
         /\ err' = r.err
  /\ ret' = <<>>
  /\ last' = [op |-> "make_team_tasks_again", idx |-> 0, gs |-> NoGs,
              arg |-> last.arg, pre |-> objs]
  /\ UNCHANGED <<teams, task_spec, AuxVars>>

BuildShared == \E p \in SharingPairs : MakeTeamTasksShared(TwoTeams, p[1], p[2])

NextReuse == BuildTwoTeams \/ BuildShared \/ MakeTeamTasksAgain \/ Evaluate \/ Restart

SpecReuse == Init /\ [][NextReuse]_vars

\* C23: make_team_tasks on entries that are well-formed as written, two of
\* them possibly with one kwargs dict, returns for every team tasks of the
\* task_cls its entry names and, with a target, a predicate over the target
\* resolved from the team's own position; the same call made again with the
\* same task_spec returns equal tasks.
C23_SpecReuse ==
  /\ (TeamCall /\ teams = TwoTeams /\ Len(last.arg) = 2)
       => /\ err = ""
          /\ \A p \in 1..2 :
               /\ TasksOf(p) # {}
               /\ \A i \in TasksOf(p) :
                    /\ Obj(i).cls = ClassOf(last.arg[p])
                    /\ last.arg[p].kwargs.target # NoTarget
                         => Obj(i).eval_fn.subject =
                              Dedup(get_target_agent(teams, teams[p].id,
                                                     last.arg[p].kwargs.target.name))
  /\ last.op = "make_team_tasks_again"
       => /\ err = ""
          /\ Len(tasks) = Len(last.pre)
          /\ \A i \in 1..Len(tasks) : Obj(i) = last.pre[i]

---------------------------------------------------------------------------
(* Equipment items and Equipment.use *)

\* the equipment classes modelled: two armor classes, a weapon, a tool, an
\* ammunition
ItemClasses == {"Hat", "Top", "Sword", "Rod", "Scrap"}

\* the attribute of entity.inventory.equipment that equip and unequip of a
\* class assign
SlotOf(cls) ==
  CASE cls = "Hat"   -> "hat"
    [] cls = "Top"   -> "top"
    [] cls = "Sword" -> "held"
    [] cls = "Rod"   -> "held"
    [] cls = "Scrap" -> "ammunition"

Slots == {"hat", "top", "held", "ammunition"}

\* the level of the entity that equip of a class compares with the item's:
\* entity.level for armor, the level of a skill for the rest
RequiredLevel(ent, cls) ==
  CASE cls = "Hat"   -> ent.level
    [] cls = "Top"   -> ent.level
    [] cls = "Sword" -> ent.skills["melee"]
    [] cls = "Rod"   -> ent.skills["fishing"]
    [] cls = "Scrap" -> ent.skills["melee"]

\* an item: its class, level.val and equipped.val
Item(cls, level) == [cls |-> cls, level |-> level, equipped |-> 0]

\* None in an equipment slot
None == 0

\* an entity with nothing equipped
Entity(level, melee, fishing) ==
  [level     |-> level,
   skills    |-> [k \in {"melee", "fishing"} |-> IF k = "melee" THEN melee ELSE fishing],
   equipment |-> [k \in Slots |-> None]]

\* unequip(self, entity): the slot of the item's class is set to None
unequip(st, i) ==
  [st EXCEPT !.entity.equipment[SlotOf(st.items[i].cls)] = None]

\* Equipment.use(self, entity) and the equip(self, entity) it calls, which
\* calls use of the item that is in the slot; st is [items, entity]
RECURSIVE Equipment_use(_, _)
Equipment_use(st, i) ==
  IF st.items[i].equipped # 0
  THEN unequip([st EXCEPT !.items[i].equipped = 0], i)
  ELSE LET st1  == [st EXCEPT !.items[i].equipped = 1]
           cls  == st1.items[i].cls
           slot == SlotOf(cls)
       IN  IF RequiredLevel(st1.entity, cls) < st1.items[i].level
           THEN st1
           ELSE LET held == st1.entity.equipment[slot]
                    st2  == IF held # None THEN Equipment_use(st1, held) ELSE st1
                IN  [st2 EXCEPT !.entity.equipment[slot] = i]

\* the items of an inventory: two hats, a top, a sword, a rod and a scrap
InventoryClasses == <<"Hat", "Hat", "Top", "Sword", "Rod", "Scrap">>

\* item levels, and levels of the entity and its skills, below and above
ItemLevels == {1, 3}

EntityLevels == {2, 4}

\* an entity and its items, nothing equipped
InitEquip ==
  /\ objs = <<>>
  /\ tasks = <<>>
  /\ ret = <<>>
  /\ last = NoCall
  /\ err = ""
  /\ teams = <<>>
  /\ task_spec = <<>>
  /\ heap = <<>>
  /\ paid = <<>>
  /\ \E lv \in [1..Len(InventoryClasses) -> ItemLevels] :
       items = [i \in 1..Len(InventoryClasses) |-> Item(InventoryClasses[i], lv[i])]
  /\ \E level \in EntityLevels, skill \in EntityLevels :
       entity = Entity(level, skill, skill)

\* items[i].use(entity)
Use(i) ==
  /\ LET st == Equipment_use([items |-> items, entity |-> entity], i)
     IN  /\ items' = st.items
         /\ entity' = st.entity
  /\ last' = [op |-> "use", idx |-> i, gs |-> NoGs, arg |-> <<>>,
              pre |-> [items |-> items, entity |-> entity]]
  /\ UNCHANGED <<objs, tasks, ret, err, TeamVars, paid>>

UseItem == \E i \in 1..Len(items) : Use(i)

NextEquip == UseItem

SpecEquip == InitEquip /\ [][NextEquip]_vars

\* C24: an item's equipped flag is 1 exactly when the item is the one in the
\* slot of its class, and a use call that un-equips an item leaves every
\* slot that held another item as it was.
C24_FlagIffSlot ==
  /\ \A i \in 1..Len(items) :
       items[i].equipped = 1 <=> entity.equipment[SlotOf(items[i].cls)] = i
  /\ (last.op = "use" /\ last.pre.items[last.idx].equipped = 1)
       => \A k \in Slots :
            last.pre.entity.equipment[k] \notin {None, last.idx}
              => entity.equipment[k] = last.pre.entity.equipment[k]

---------------------------------------------------------------------------
(* UnfairFight.teams *)

\* config.PLAYER_N is 1..MaxPlayerN
MaxPlayerN == 110

\* list(range(a, b))
py_range(a, b) == [i \in 1..Max(b - a, 0) |-> a + i - 1]

\* teams with the agents split in the middle
UnfairFight_teams_even_split(PLAYER_N) ==
  LET half == PLAYER_N \div 2 + 1
  IN  <<Team(StrId("small"), py_range(1, half)),
        Team(StrId("large"), py_range(half, PLAYER_N + 1))>>

\* UnfairFight.teams: the dict with the keys 'small' and 'large', in order
UnfairFight_teams(PLAYER_N) ==
  LET half == (PLAYER_N + 1) \div 2
  IN  <<Team(StrId("small"), py_range(1, half)),
        Team(StrId("large"), py_range(half, PLAYER_N + 1))>>

\* game.teams, with config.PLAYER_N = n
GetTeams(n) ==
  /\ teams' = UnfairFight_teams(n)
  /\ last' = [op |-> "teams", idx |-> 0, gs |-> NoGs, arg |-> n, pre |-> <<>>]
  /\ UNCHANGED <<objs, tasks, ret, err, task_spec, heap, AuxVars>>

ReadTeams == \E n \in 1..MaxPlayerN : GetTeams(n)

NextFight == ReadTeams

SpecFight == Init /\ [][NextFight]_vars

\* the ids of the team 'small' and of the team 'large'
Small == teams[1].members

Large == teams[2].members

\* the two teams are disjoint, hold the ids 1..PLAYER_N, each once, are not
\* empty, and 'small' is the smaller one
FairlyUnfair ==
  /\ teams[1].id = StrId("small") /\ teams[2].id = StrId("large")
  /\ Range(Small) \cap Range(Large) = {}
  /\ Range(Small) \cup Range(Large) = 1..last.arg
  /\ Len(Small) + Len(Large) = last.arg
  /\ Len(Small) > 0 /\ Len(Large) > 0
  /\ Len(Small) < Len(Large)

\* C25 as stated: for every PLAYER_N >= 2 the teams 'small' and 'large' are
\* disjoint, hold exactly the ids 1..PLAYER_N, are both non-empty, and
\* 'small' has fewer members than 'large'.
C25_TeamsPartition == (last.op = "teams" /\ last.arg >= 2) => FairlyUnfair

\* C25 amended: the same for every PLAYER_N >= 3; for PLAYER_N = 2 (and 1)
\* 'small' is empty and 'large' holds every id.
C25_Amended ==
  /\ (last.op = "teams" /\ last.arg >= 3) => FairlyUnfair
  /\ (last.op = "teams" /\ last.arg <= 2)
       => Small = <<>> /\ Large = py_range(1, last.arg + 1)

\* C25 witness: five players are split into [1, 2] and [3, 4, 5].
C25_Witness ==
  /\ last.op = "teams" /\ last.arg = 5
  /\ Small = <<1, 2>>
  /\ Large = <<3, 4, 5>>

=============================================================================
